---- MODULE Spec2Model ----
(***************************************************************************)
(* Payment completion and enrollment consistency of the LMS backend.       *)
(*                                                                         *)
(* The model follows src/src/routes/payments.js (create-checkout and the   *)
(* Stripe webhook), the two course handlers of src/src/routes/courses.js   *)
(* that touch the same rows (PUT /:id, DELETE /:id) and the Sequelize      *)
(* models of src/unnamed/part_001.  Node runs one handler at a time and    *)
(* switches only at an await, so every store call of the webhook is one    *)
(* step, the delete handler is two (its reads, its destroy), and any store *)
(* call may throw.  The arrival of a request is taken together with its    *)
(* first store call, since nothing is shared before that call runs.        *)
(* create-checkout and PUT /:id have a single effect each and are one      *)
(* step.                                                                   *)
(*                                                                         *)
(* Money is held in cents.  Row ids (UUIDV4 in the source) are modelled by *)
(* the index of the webhook invocation that inserts the row; a             *)
(* payment_intent id is modelled by a pair of student and serial number.   *)
(***************************************************************************)
EXTENDS Integers, Sequences, FiniteSets, TLC

\* ---------------------------------------------------------------- bounds
MaxInv == 2          \* webhook deliveries in one behaviour
MaxSessions == 2     \* checkout sessions created in one behaviour

Inv == 1..MaxInv
Slots == 1..(MaxInv + 1)   \* SpecBacklog takes one delivery more than Spec
Students == {"s1", "s2"}
CourseIds == {"c1"}
PriceList == <<1000, 2010>>   \* the prices the course takes, in this order
InitialEnrollmentCount == 0

COMPLETED == "checkout.session.completed"
EventTypes == {COMPLETED, "payment_intent.created"}

\* What stripe.webhooks.constructEvent throws (payments.js:54-59): nothing, or
\* an error whose message names the check that failed.
NoError == "none"
SignatureMismatch == "No signatures found matching the expected signature for payload"
TimestampOutsideTolerance == "Timestamp outside the tolerance zone"
VerificationOutcomes == {NoError, SignatureMismatch, TimestampOutsideTolerance}

Null == [null |-> TRUE]
NoDate == "null"     \* a DATE column without a value
Now == "new Date()"  \* the time of the request; the value is never compared
ProgressInputs == {50, 100, 150}   \* req.body.progress, in percent
NoTx == <<"none", 0>>

Range(f) == {f[x] : x \in DOMAIN f}

\* ------------------------------------------------------------------ state
VARIABLES
  Course,       \* Courses table: course id -> row (exists = FALSE once destroyed)
  Payment,      \* Payments table: set of rows
  Enrollment,   \* Enrollments table: set of rows
  sessions,     \* checkout sessions held by the payment provider (a set of rows)
  wh,           \* webhook invocations: position and local variables
  del,          \* the DELETE /:id request in flight
  pre           \* history of the invocations in flight.  pre[i].solo: no other
                \* invocation has been in flight with i, and i arrived with a
                \* fresh transactionId for a student not enrolled;
                \* pre[i].count: the counter i found then; pre[i].redelivery:
                \* no other invocation has been in flight with i, and i
                \* arrived after its transactionId was processed successfully

vars == <<Course, Payment, Enrollment, sessions, wh, del, pre>>

IdleWebhook == [pc |-> "idle", tx |-> NoTx, type |-> "none", sigOk |-> TRUE,
                studentId |-> "none", courseId |-> "none",
                course |-> Null, status |-> 0, body |-> "none", error |-> "none"]

IdleDelete == [pc |-> "idle", courseId |-> "none"]

NoPre == [solo |-> FALSE, count |-> 0, redelivery |-> FALSE]

Init ==
  /\ Course \in [CourseIds -> [exists : {TRUE}, price : {PriceList[1]},
                               enrollmentCount : {InitialEnrollmentCount}]]
  /\ Payment = {}
  /\ Enrollment = {}
  /\ sessions = {}
  /\ wh = [i \in Slots |-> IdleWebhook]
  /\ del = IdleDelete
  /\ pre = [i \in Slots |-> NoPre]

\* ---------------------------------------------------------------- helpers
InFlight(i) == wh[i].pc \notin {"idle", "done"}

\* Course.findByPk
findByPk(c) == IF Course[c].exists THEN Course[c] ELSE Null

\* Enrollment.findOne({ where: { studentId, courseId } })
findOneEnrollment(s, c) ==
  {e \in Enrollment : e.studentId = s /\ e.courseId = c}

\* Enrollment.count({ where: { courseId } })
countEnrollments(c) == Cardinality({e \in Enrollment : e.courseId = c})

\* A payment_intent the provider has not handed out: the student's name and a
\* serial number stand for the opaque id.
NewPaymentIntent(s) ==
  <<s, 1 + Cardinality({x \in sessions : x.studentId = s})>>

\* ------------------------------------------------- POST /create-checkout
\* CheckoutStatus without the Enrollment.findOne of payments.js:14-17.
CheckoutStatusUnchecked(s, c, ok) ==
  IF ~ok THEN 500
  ELSE IF findByPk(c) = Null THEN 404
  ELSE 200

\* payments.js:9-46: the status create-checkout answers with: 500 when a call
\* throws, 404 without the course, 400 with an Enrollment of the student for
\* the course, 200 with the url of the new session.
CheckoutStatus(s, c, ok) ==
  IF ~ok THEN 500
  ELSE IF findByPk(c) = Null THEN 404
  ELSE IF findOneEnrollment(s, c) # {} THEN 400
  ELSE 200

\* payments.js:8-47.  The handler only reads the stores; its one effect is the
\* session the provider creates when the answer is 200, which carries the
\* price read at line 11 (in cents, line 29), the student and the course
\* (lines 36-40) and a new payment_intent.
CreateCheckout(s, c, ok) ==
  /\ Cardinality(sessions) < MaxSessions
  /\ sessions' = IF CheckoutStatus(s, c, ok) = 200
                 THEN sessions \cup {[payment_intent |-> NewPaymentIntent(s),
                                      studentId |-> s, courseId |-> c,
                                      amount |-> findByPk(c).price]}
                 ELSE sessions
  /\ UNCHANGED <<Course, Payment, Enrollment, wh, del, pre>>

\* ------------------------------------------------------------ POST /webhook
\* Caught with the error passed on instead of logged: the delivery is answered
\* 500.
CaughtNotAcknowledged(w, e) ==
  [IdleWebhook EXCEPT !.pc = "done", !.type = w.type, !.sigOk = w.sigOk,
                      !.error = e, !.status = 500, !.body = "error"]

\* Caught with a return in the catch block: the handler ends without sending
\* a response.
CaughtWithoutResponse(w, e) ==
  [w EXCEPT !.pc = "returned", !.error = e]

\* payments.js:95-100: the catch logs the error and falls through to the
\* acknowledgement.
Caught(w, e) ==
  [IdleWebhook EXCEPT !.pc = "done", !.type = w.type, !.sigOk = w.sigOk,
                      !.error = e, !.status = 200, !.body = "received"]

\* payments.js:94-100: the success is logged and the delivery acknowledged.
Processed(w) ==
  [IdleWebhook EXCEPT !.pc = "done", !.type = w.type, !.sigOk = w.sigOk,
                      !.status = 200, !.body = "received"]

\* payments.js:60: the body `Webhook Error: ${err.message}`.
WebhookError(err) ==
  CASE err = SignatureMismatch ->
         "Webhook Error: No signatures found matching the expected signature for payload"
    [] err = TimestampOutsideTolerance ->
         "Webhook Error: Timestamp outside the tolerance zone"

\* payments.js:59-61: constructEvent threw err; 400 is sent with the message
\* of err and the handler returns.
Rejected(err) ==
  [IdleWebhook EXCEPT !.pc = "done", !.sigOk = FALSE, !.status = 400,
                      !.body = WebhookError(err)]

\* Acknowledged with an unhandled event type refused as a bad request.
AcknowledgedAsBadRequest(type) ==
  [IdleWebhook EXCEPT !.pc = "done", !.type = type, !.status = 400,
                      !.body = "Unhandled event type"]

\* payments.js:63, 100: an event of another type is only acknowledged.
Acknowledged(type) ==
  [IdleWebhook EXCEPT !.pc = "done", !.type = type, !.status = 200,
                      !.body = "received"]

\* payments.js:63-72: a completed checkout; the metadata is taken from the
\* session and the course row is read into a local instance.  A missing
\* course makes line 69 throw a TypeError.
Started(session, type, sigOk, ok) ==
  LET w == [IdleWebhook EXCEPT !.type = type, !.sigOk = sigOk,
                               !.tx = session.payment_intent,
                               !.studentId = session.studentId,
                               !.courseId = session.courseId]
  IN IF ~ok THEN Caught(w, "StorageError")
     ELSE IF findByPk(session.courseId) = Null THEN Caught(w, "TypeError")
     ELSE [w EXCEPT !.pc = "PaymentCreate", !.course = findByPk(session.courseId)]

\* Dispatch without the return of payments.js:60: the event is used whether or
\* not it verified.
DispatchUnverified(session, type, err, ok) ==
  IF type # COMPLETED THEN Acknowledged(type)
  ELSE Started(session, type, err = NoError, ok)

\* Dispatch without the test of payments.js:63: every verified event is
\* handled as a completed checkout.
DispatchAnyType(session, type, err, ok) ==
  IF err # NoError THEN Rejected(err)
  ELSE Started(session, type, TRUE, ok)

\* payments.js:49-72: what the handler has done when its first query returns.
Dispatch(session, type, err, ok) ==
  IF err # NoError THEN Rejected(err)
  ELSE IF type # COMPLETED THEN Acknowledged(type)
  ELSE Started(session, type, TRUE, ok)

\* payments.js:94: invocation i logged 'Payment processed'.
Succeeded(i) ==
  /\ wh[i].pc = "done"
  /\ wh[i].sigOk
  /\ wh[i].type = COMPLETED
  /\ wh[i].error = "none"

\* History kept while an invocation is in flight only.
Forget(i) == [pre EXCEPT ![i] = NoPre]

\* payments.js:49-72: a delivery about the session of payment_intent t arrives
\* (each session has its own payment_intent); constructEvent either
\* throws err or yields the event (err = NoError), and Course.findByPk returns
\* or throws (ok = FALSE).  The arrival and the first query are one step: nothing
\* is shared before the query runs.
WebhookReceive(i, t, type, err, ok) ==
  /\ wh[i].pc = "idle"
  /\ \A j \in Slots : j < i => wh[j].pc # "idle"
  /\ \E x \in sessions : x.payment_intent = t
  /\ LET session == CHOOSE x \in sessions : x.payment_intent = t
         w == Dispatch(session, type, err, ok)
     IN /\ wh' = [wh EXCEPT ![i] = w]
        /\ pre' = [j \in Slots |->
                    IF w.pc = "done" THEN pre[j]
                    ELSE IF j = i /\ \A k \in Slots : ~InFlight(k)
                    THEN [solo |-> /\ ~\E p \in Payment :
                                        p.transactionId = session.payment_intent
                                   /\ findOneEnrollment(session.studentId,
                                                        session.courseId) = {},
                          count |-> Course[session.courseId].enrollmentCount,
                          redelivery |-> \E p \in Payment :
                                           /\ p.transactionId = session.payment_intent
                                           /\ Succeeded(p.id)]
                    ELSE NoPre]
  /\ UNCHANGED <<Course, Payment, Enrollment, sessions, del>>

\* payments.js:69: course.price * 0.15, in hundredths of a cent.  The handler
\* multiplies the price in dollars by the double 0.15 and does not round.  The
\* double differs from the product by less than 1e-15, which decides the
\* stored cent only when the product ends on half a cent; for the prices of
\* PriceList the doubles print as 1.5 and 3.015, the exact products.
platformFee(price) == price * 15

\* payments.js:70: course.price - platformFee, in hundredths of a cent (the
\* doubles print as 8.5 and 17.085).
instructorPayout(price) == price * 100 - platformFee(price)

\* A DECIMAL(10,2) column (part_001:80-86): the number the handler passes, given
\* in hundredths of a cent, is stored rounded to the cent, half away from zero.
Decimal2(x) == (x + 50) \div 100

\* PaymentRow without status: 'completed': the column default applies
\* (part_001:84).
PaymentRowPending(i) ==
  [id |-> i, studentId |-> wh[i].studentId, courseId |-> wh[i].courseId,
   amount |-> wh[i].course.price, transactionId |-> wh[i].tx,
   status |-> "pending",
   platformFee |-> Decimal2(platformFee(wh[i].course.price)),
   instructorPayout |-> Decimal2(instructorPayout(wh[i].course.price))]

\* The row payments.js:72-83 inserts: amount is the price of the local course
\* instance, status is 'completed', transactionId is the payment_intent;
\* platformFee and instructorPayout are rounded by their columns, each on its
\* own.
PaymentRow(i) ==
  [id |-> i, studentId |-> wh[i].studentId, courseId |-> wh[i].courseId,
   amount |-> wh[i].course.price, transactionId |-> wh[i].tx,
   status |-> "completed",
   platformFee |-> Decimal2(platformFee(wh[i].course.price)),
   instructorPayout |-> Decimal2(instructorPayout(wh[i].course.price))]

\* EnrollmentRow with the access time stamped at creation.
EnrollmentRowAccessed(i) ==
  [id |-> i, studentId |-> wh[i].studentId, courseId |-> wh[i].courseId,
   progress |-> 0, completedAt |-> NoDate, lastAccessedAt |-> Now]

\* The row payments.js:85-89 inserts: completedAt and lastAccessedAt are not
\* given and have no default (part_001:70-71).
EnrollmentRow(i) ==
  [id |-> i, studentId |-> wh[i].studentId, courseId |-> wh[i].courseId,
   progress |-> 0, completedAt |-> NoDate, lastAccessedAt |-> NoDate]

\* IncrementedCount with the increment of payments.js:91 left out.
StaleCount(i) == wh[i].course.enrollmentCount

\* payments.js:91: the counter of the local instance, one more than was read.
IncrementedCount(i) == wh[i].course.enrollmentCount + 1

\* payments.js:72-85: Payment.create.  The insert is refused when the course
\* row is gone (Payment.belongsTo(Course), part_001:110); nothing in the
\* Payment model makes transactionId unique (part_001:83).
WebhookPaymentCreate(i, ok) ==
  /\ wh[i].pc = "PaymentCreate"
  /\ IF ~ok
     THEN /\ wh' = [wh EXCEPT ![i] = Caught(wh[i], "StorageError")]
          /\ UNCHANGED Payment
     ELSE IF ~Course[wh[i].courseId].exists
     THEN /\ wh' = [wh EXCEPT ![i] = Caught(wh[i], "ForeignKeyConstraintError")]
          /\ UNCHANGED Payment
     ELSE /\ Payment' = Payment \cup {PaymentRow(i)}
          /\ wh' = [wh EXCEPT ![i].pc = "EnrollmentCreate"]
  /\ pre' = IF wh'[i].pc = "done" THEN Forget(i) ELSE pre
  /\ UNCHANGED <<Course, Enrollment, sessions, del>>

\* payments.js:85-92: Enrollment.create, then the local counter is incremented
\* and course.save() is issued.  The Enrollment model has no unique index on
\* (studentId, courseId) (part_001:65-72).
WebhookEnrollmentCreate(i, ok) ==
  /\ wh[i].pc = "EnrollmentCreate"
  /\ IF ~ok
     THEN /\ wh' = [wh EXCEPT ![i] = Caught(wh[i], "StorageError")]
          /\ UNCHANGED Enrollment
     ELSE IF ~Course[wh[i].courseId].exists
     THEN /\ wh' = [wh EXCEPT ![i] = Caught(wh[i], "ForeignKeyConstraintError")]
          /\ UNCHANGED Enrollment
     ELSE /\ Enrollment' = Enrollment \cup {EnrollmentRow(i)}
          /\ wh' = [wh EXCEPT ![i].pc = "save",
                              ![i].course.enrollmentCount = IncrementedCount(i)]
  /\ pre' = IF wh'[i].pc = "done" THEN Forget(i) ELSE pre
  /\ UNCHANGED <<Course, Payment, sessions, del>>

\* payments.js:92-100: course.save() writes the local counter value to the
\* row (UPDATE ... SET enrollmentCount = <value> WHERE id), then the success is
\* logged and the delivery acknowledged.
WebhookSave(i, ok) ==
  /\ wh[i].pc = "save"
  /\ IF ~ok
     THEN /\ wh' = [wh EXCEPT ![i] = Caught(wh[i], "StorageError")]
          /\ UNCHANGED Course
     ELSE /\ Course' = [Course EXCEPT ![wh[i].courseId].enrollmentCount =
                          IF Course[wh[i].courseId].exists
                          THEN wh[i].course.enrollmentCount ELSE @]
          /\ wh' = [wh EXCEPT ![i] = Processed(wh[i])]
  /\ pre' = Forget(i)
  /\ UNCHANGED <<Payment, Enrollment, sessions, del>>

\* --------------------------------------------------------- PUT /courses/:id
\* courses.js:85-98: the instructor changes the price of an existing course.
\* The read at line 87 only decides between 404/403 and the update; a course
\* that is gone stays gone, so the handler is one step on the Course row.
CourseUpdate(c, price) ==
  /\ Course[c].exists
  /\ \E k \in 1..(Len(PriceList) - 1) :
       Course[c].price = PriceList[k] /\ price = PriceList[k + 1]
  /\ Course' = [Course EXCEPT ![c].price = price]
  /\ UNCHANGED <<Payment, Enrollment, sessions, wh, del, pre>>

\* ------------------------------------------------- PUT /courses/:id/progress
\* A value fits DECIMAL(5,2) (part_001:69) when it is below 1000 in size.
FitsDecimal5(progress) == progress > -1000 /\ progress < 1000

\* courses.js:148-166: the student's enrollment is read and saved with the
\* progress of the request body as it came, the access time, and the
\* completion time when progress >= 100.  The read only yields the id of the
\* row the save writes, and ids are not reused, so the handler is one step at
\* its save; with several rows for the pair findOne returns any of them.
\* Without a row (404), with a value the column refuses or a throwing call
\* (500) nothing is written.
ProgressUpdate(s, c, progress, ok) ==
  /\ \E e \in findOneEnrollment(s, c) :
       Enrollment' = IF ok /\ FitsDecimal5(progress)
                     THEN (Enrollment \ {e}) \cup
                            {[e EXCEPT !.progress = progress,
                                       !.lastAccessedAt = Now,
                                       !.completedAt =
                                          IF progress >= 100 THEN Now ELSE @]}
                     ELSE Enrollment
  /\ UNCHANGED <<Course, Payment, sessions, wh, del, pre>>

\* ------------------------------------------------------ DELETE /courses/:id
\* DeleteRefusal without the Enrollment.count of courses.js:106-109.
DeleteRefusalUncounted(c, ok) ==
  IF ~ok THEN 500
  ELSE IF findByPk(c) = Null THEN 404
  ELSE 0

\* courses.js:101-109, 113-115: the status DELETE /:id answers with before it
\* gets to course.destroy(): 500 when a call throws, 404 without the course,
\* 400 when the course has enrollments; 0 when it goes on to destroy.
DeleteRefusal(c, ok) ==
  IF ~ok THEN 500
  ELSE IF findByPk(c) = Null THEN 404
  ELSE IF countEnrollments(c) > 0 THEN 400
  ELSE 0

\* courses.js:100-111: the request arrives, the course is read and its
\* enrollments are counted; 404 when the course is absent, 400 when it has
\* enrollments, 500 when a call throws.  The read and the count are one step:
\* only this handler removes a course, so what the read found still holds
\* when the count runs.
DeleteFindByPk(c, ok) ==
  /\ del.pc = "idle"
  /\ del' = IF DeleteRefusal(c, ok) = 0
            THEN [IdleDelete EXCEPT !.pc = "destroy", !.courseId = c]
            ELSE IdleDelete
  /\ UNCHANGED <<Course, Payment, Enrollment, sessions, wh, pre>>

\* courses.js:111-115: course.destroy().  Payment rows of the course refuse the
\* delete (Payment.belongsTo(Course), part_001:110); Enrollment rows go with
\* the course (Course.hasMany(Enrollment), part_001:105).
DeleteDestroy(ok) ==
  /\ del.pc = "destroy"
  /\ IF ok /\ ~\E p \in Payment : p.courseId = del.courseId
     THEN /\ Course' = [Course EXCEPT ![del.courseId].exists = FALSE]
          /\ Enrollment' = {e \in Enrollment : e.courseId # del.courseId}
          /\ del' = IdleDelete
     ELSE /\ del' = IdleDelete
          /\ UNCHANGED <<Course, Enrollment>>
  /\ UNCHANGED <<Payment, sessions, wh, pre>>

\* ------------------------------------------------------------ specification
\* Every payment_intent the provider can hand out within the bounds.
PaymentIntents == Students \X (1..MaxSessions)

Next ==
  \/ \E s \in Students, c \in CourseIds, ok \in BOOLEAN : CreateCheckout(s, c, ok)
  \/ \E i \in Inv, t \in PaymentIntents, type \in EventTypes, err \in VerificationOutcomes, ok \in BOOLEAN : WebhookReceive(i, t, type, err, ok)
  \/ \E i \in Inv, ok \in BOOLEAN : WebhookPaymentCreate(i, ok)
  \/ \E i \in Inv, ok \in BOOLEAN : WebhookEnrollmentCreate(i, ok)
  \/ \E i \in Inv, ok \in BOOLEAN : WebhookSave(i, ok)
  \/ \E c \in CourseIds, price \in Range(PriceList) : CourseUpdate(c, price)
  \/ \E c \in CourseIds, ok \in BOOLEAN : DeleteFindByPk(c, ok)
  \/ \E ok \in BOOLEAN : DeleteDestroy(ok)

Spec == Init /\ [][Next]_vars

\* The same handlers with MaxInv + 1 deliveries in one behaviour.
NextBacklog ==
  \/ \E s \in Students, c \in CourseIds, ok \in BOOLEAN : CreateCheckout(s, c, ok)
  \/ \E i \in Slots, t \in PaymentIntents, type \in EventTypes, err \in VerificationOutcomes, ok \in BOOLEAN : WebhookReceive(i, t, type, err, ok)
  \/ \E i \in Slots, ok \in BOOLEAN : WebhookPaymentCreate(i, ok)
  \/ \E i \in Slots, ok \in BOOLEAN : WebhookEnrollmentCreate(i, ok)
  \/ \E i \in Slots, ok \in BOOLEAN : WebhookSave(i, ok)
  \/ \E c \in CourseIds, price \in Range(PriceList) : CourseUpdate(c, price)
  \/ \E c \in CourseIds, ok \in BOOLEAN : DeleteFindByPk(c, ok)
  \/ \E ok \in BOOLEAN : DeleteDestroy(ok)

SpecBacklog == Init /\ [][NextBacklog]_vars

\* The handlers of Spec together with PUT /:id/progress.
NextProgress ==
  \/ Next
  \/ \E s \in Students, c \in CourseIds, progress \in ProgressInputs, ok \in BOOLEAN : ProgressUpdate(s, c, progress, ok)

SpecProgress == Init /\ [][NextProgress]_vars

\* The store call invocation i awaits returns or throws.
WebhookStep(i) ==
  \E ok \in BOOLEAN :
    \/ WebhookPaymentCreate(i, ok)
    \/ WebhookEnrollmentCreate(i, ok)
    \/ WebhookSave(i, ok)

\* The requests that decide which way a webhook invocation goes: the
\* deliveries themselves and DELETE /:id.  No branch of the webhook reads the
\* price, so PUT /:id is left out.
NextFair ==
  \/ \E s \in Students, c \in CourseIds, ok \in BOOLEAN : CreateCheckout(s, c, ok)
  \/ \E i \in Inv, t \in PaymentIntents, type \in EventTypes, err \in VerificationOutcomes, ok \in BOOLEAN : WebhookReceive(i, t, type, err, ok)
  \/ \E i \in Inv, ok \in BOOLEAN : WebhookPaymentCreate(i, ok)
  \/ \E i \in Inv, ok \in BOOLEAN : WebhookEnrollmentCreate(i, ok)
  \/ \E i \in Inv, ok \in BOOLEAN : WebhookSave(i, ok)
  \/ \E c \in CourseIds, ok \in BOOLEAN : DeleteFindByPk(c, ok)
  \/ \E ok \in BOOLEAN : DeleteDestroy(ok)

\* Every store call an invocation awaits eventually returns or throws, and
\* Node then resumes the handler (payments.js:68, 72, 85, 92).
SpecFair == Init /\ [][NextFair]_vars /\ \A i \in Inv : WF_vars(WebhookStep(i))

\* ------------------------------------------------------------------ claims
PaymentsBy(i) == {p \in Payment : p.id = i}
EnrollmentsBy(i) == {e \in Enrollment : e.id = i}
Stores == <<Course, Payment, Enrollment>>

\* C1: once a transactionId has been processed successfully, a later delivery
\* of the same event, handled with no other delivery in flight, adds no
\* Payment row, no Enrollment row and does not change the counter.
C1_RedeliveryIdempotent ==
  [][\A i \in Inv :
       (pre[i].redelivery /\ wh'[i] # wh[i]) => UNCHANGED Stores]_vars

\* C2: two deliveries of one transactionId that are in flight together never
\* both insert a Payment row.
C2_ConcurrentSameTxOneCommit ==
  \A i, j \in Inv :
    (i # j /\ InFlight(i) /\ InFlight(j) /\ wh[i].tx = wh[j].tx)
      => (PaymentsBy(i) = {} \/ PaymentsBy(j) = {})

\* C3: at most one Enrollment row per (studentId, courseId).
C3_OneEnrollmentPerPair ==
  \A e, f \in Enrollment :
    (e.studentId = f.studentId /\ e.courseId = f.courseId) => e = f

\* C4: no state holds a part of a completion: every Payment row has the
\* Enrollment row of the same invocation and the other way round, and the
\* counter of each course counts its Enrollment rows.
C4_NoPartialUpdate ==
  /\ \A p \in Payment : EnrollmentsBy(p.id) # {}
  /\ \A e \in Enrollment : PaymentsBy(e.id) # {}
  /\ \A c \in CourseIds :
       Course[c].exists =>
         Course[c].enrollmentCount = InitialEnrollmentCount + countEnrollments(c)

\* C5: when no delivery is in flight and the successful completions for a
\* course all carry different transactionIds and students, the counter is
\* its initial value plus their number.
C5_NoLostUpdate ==
  \A c \in CourseIds :
    LET done == {p \in Payment : p.courseId = c /\ Succeeded(p.id)}
    IN (/\ \A i \in Inv : ~InFlight(i)
        /\ Course[c].exists
        /\ \A p, q \in done :
             p # q => (p.transactionId # q.transactionId /\ p.studentId # q.studentId))
       => Course[c].enrollmentCount = InitialEnrollmentCount + Cardinality(done)

\* C6: a completed-payment event with a fresh transactionId for an existing
\* course and a student not enrolled, processed with no other delivery in
\* flight and no failing store call, leaves exactly one Payment row with its
\* transactionId (status completed), exactly one Enrollment row for the
\* student and course, and the counter one above what it found.
C6_FreshCompletion ==
  [][\A i \in Inv :
       (pre[i].solo /\ wh[i].pc = "save" /\ Succeeded(i)')
         => /\ \E p \in Payment' :
                 /\ {q \in Payment' : q.transactionId = wh[i].tx} = {p}
                 /\ p.status = "completed"
                 /\ p.studentId = wh[i].studentId
                 /\ p.courseId = wh[i].courseId
            /\ Cardinality({e \in Enrollment' : /\ e.studentId = wh[i].studentId
                                                /\ e.courseId = wh[i].courseId}) = 1
            /\ Course'[wh[i].courseId].enrollmentCount = pre[i].count + 1]_vars

C6_Witness ==
  \E i \in Inv :
    /\ Succeeded(i)
    /\ \A j \in Inv \ {i} : wh[j].pc = "idle"
    /\ PaymentsBy(i) # {} /\ EnrollmentsBy(i) # {}

\* C7: a request whose signature does not verify is answered 4xx at once and
\* leaves the Course, Payment and Enrollment stores as they were; it never
\* owns a row.
C7_BadSignatureRejected ==
  [][\A i \in Inv :
       ~wh'[i].sigOk
         => /\ wh'[i].pc = "done"
            /\ wh'[i].status \in 400..499
            /\ PaymentsBy(i)' = {} /\ EnrollmentsBy(i)' = {}
            /\ wh[i].pc = "idle" => UNCHANGED Stores]_vars

C7_Witness ==
  \E i \in Inv : wh[i].pc = "done" /\ ~wh[i].sigOk /\ wh[i].status = 400

\* C8: no Payment row comes from an event whose paid amount differs from the
\* course price the handler read: every Payment row's amount is the amount
\* of its session.
C8_AmountMismatchRejected ==
  \A p \in Payment :
    \A x \in sessions :
      x.payment_intent = p.transactionId => x.amount = p.amount

\* C9: an invocation that ended in an error has left no row behind.
C9_FailureRollsBack ==
  \A i \in Inv :
    (wh[i].pc = "done" /\ wh[i].error # "none")
      => (PaymentsBy(i) = {} /\ EnrollmentsBy(i) = {})

\* C10: a delivery whose processing met a failing store call is not answered
\* 2xx.
C10_StorageFailureNotAcknowledged ==
  \A i \in Inv :
    wh[i].error = "StorageError" => wh[i].status \notin 200..299

\* C11: every Payment row splits its amount exactly: platformFee plus
\* instructorPayout is the amount, to the cent.
C11_SplitSumsToAmount ==
  \A p \in Payment : p.platformFee + p.instructorPayout = p.amount

\* C12: the platform fee of every Payment row is 15% of the amount rounded to
\* the cent and the instructor payout is the amount less that fee.
C12_FeeRoundedPayoutRemainder ==
  \A p \in Payment :
    /\ p.platformFee = Decimal2(p.amount * 15)
    /\ p.instructorPayout = p.amount - p.platformFee

\* C13: a verified completed-checkout event for a student and course that
\* already have an Enrollment row (not one of this invocation) changes no
\* store: no Payment row, no second Enrollment row, no counter write.
C13_EnrolledPairRejected ==
  [][\A i \in Inv :
       (/\ InFlight(i)
        /\ wh'[i] # wh[i]
        /\ \E e \in findOneEnrollment(wh[i].studentId, wh[i].courseId) : e.id # i)
         => UNCHANGED Stores]_vars

\* C14: a verified event of a type other than checkout.session.completed is
\* answered 200 {received: true} in the step it arrives, and that step leaves
\* the Course, Payment and Enrollment stores as they were.
C14_OtherTypeAcknowledged ==
  [][\A i \in Inv :
       (wh'[i] # wh[i] /\ wh'[i].sigOk /\ wh'[i].type \notin {COMPLETED, "none"})
         => /\ wh'[i].pc = "done"
            /\ wh'[i].status = 200 /\ wh'[i].body = "received"
            /\ UNCHANGED Stores]_vars

C14_Witness ==
  \E i \in Inv :
    /\ wh[i].pc = "done" /\ wh[i].sigOk
    /\ wh[i].type = "payment_intent.created"
    /\ wh[i].status = 200 /\ wh[i].body = "received"

\* C15: a verified completed-checkout event whose course does not exist (not
\* found by Course.findByPk, or destroyed before Payment.create) ends in a step
\* that leaves the Course, Payment and Enrollment stores as they were, is
\* answered 200 {received: true}, and its invocation owns no row.
C15_MissingCourseAcknowledged ==
  [][\A i \in Inv :
       (/\ wh'[i] # wh[i]
        /\ wh'[i].error \in {"TypeError", "ForeignKeyConstraintError"})
         => /\ wh'[i].pc = "done"
            /\ wh'[i].status = 200 /\ wh'[i].body = "received"
            /\ UNCHANGED Stores
            /\ PaymentsBy(i)' = {} /\ EnrollmentsBy(i)' = {}]_vars

C15_Witness ==
  \E i \in Inv :
    /\ wh[i].pc = "done" /\ wh[i].sigOk /\ wh[i].type = COMPLETED
    /\ wh[i].error = "TypeError" /\ wh[i].status = 200
    /\ \E c \in CourseIds : ~Course[c].exists

\* C16: a delivery is answered 4xx exactly when its verification failed; a
\* verified delivery that met no failing store call (processed, of another
\* type, or its course missing) is answered 200 {received: true}.
C16_ClientErrorOnlyUnverified ==
  \A i \in Inv :
    wh[i].pc = "done"
      => /\ wh[i].status \in 400..499 <=> ~wh[i].sigOk
         /\ (wh[i].sigOk /\ wh[i].error # "StorageError")
              => (wh[i].status = 200 /\ wh[i].body = "received")

C16_Witness ==
  \E i, j \in Inv :
    /\ wh[i].pc = "done" /\ ~wh[i].sigOk /\ wh[i].status \in 400..499
    /\ Succeeded(j) /\ PaymentsBy(j) # {}
    /\ wh[j].status = 200 /\ wh[j].body = "received"

\* C17: the Payment row an invocation inserts carries as amount the price its
\* checkout session charged, also when the course price changed in between.
C17_AmountIsCheckoutPrice ==
  [][\A i \in Inv :
       \A p \in PaymentsBy(i)' \ PaymentsBy(i) :
         \A x \in sessions : x.payment_intent = wh[i].tx => p.amount = x.amount]_vars

\* C18: the enrollment counter of a course is never negative and no step
\* lowers it.
C18_CounterNeverDecreases ==
  [][\A c \in CourseIds :
       /\ Course'[c].enrollmentCount >= 0
       /\ Course'[c].enrollmentCount >= Course[c].enrollmentCount]_vars

\* C19: two requests rejected by the verification get the same status and the
\* same body, whatever made the verification fail.
C19_RejectionUniform ==
  \A i, j \in Inv :
    (wh[i].pc = "done" /\ ~wh[i].sigOk /\ wh[j].pc = "done" /\ ~wh[j].sigOk)
      => (wh[i].status = wh[j].status /\ wh[i].body = wh[j].body)

\* C20: an invocation that has not answered can always take its next step,
\* whatever the other invocations are doing; it eventually answers; and once
\* it has answered, its response is never sent again or changed.
C20_EveryInvocationResponds ==
  /\ [](\A i \in Inv : InFlight(i) => ENABLED WebhookStep(i))
  /\ \A i \in Inv : InFlight(i) ~> (wh[i].pc = "done" /\ wh[i].status # 0)
  /\ [][\A i \in Inv : wh[i].pc = "done" => wh'[i] = wh[i]]_vars

C20_Witness ==
  \E i, j \in Inv :
    /\ i # j
    /\ wh[i].pc = "done" /\ wh[i].status = 200 /\ wh[i].error = "StorageError"
    /\ InFlight(j)

\* C21: every Enrollment row the webhook inserts has progress 0 and neither
\* completedAt nor lastAccessedAt set.
C21_EnrollmentStartsFresh ==
  [][\A e \in Enrollment' :
       (\A f \in Enrollment : f.id # e.id)
         => (e.progress = 0 /\ e.completedAt = NoDate /\ e.lastAccessedAt = NoDate)]_vars

C21_Witness ==
  \E i \in Inv :
    /\ wh[i].pc = "save"
    /\ \E e \in EnrollmentsBy(i) :
         e.progress = 0 /\ e.completedAt = NoDate /\ e.lastAccessedAt = NoDate

\* C22: the progress of every Enrollment row is between 0 and 100.
C22_ProgressInRange ==
  \A e \in Enrollment : e.progress >= 0 /\ e.progress <= 100

\* C23: every Enrollment row has a completed Payment row for the same student
\* and course, and that Payment row was in the store before the Enrollment
\* row was inserted.
C23_EnrollmentHasPriorPayment ==
  /\ [](\A e \in Enrollment :
          \E p \in Payment : /\ p.studentId = e.studentId
                              /\ p.courseId = e.courseId
                              /\ p.status = "completed")
  /\ [][\A e \in Enrollment' :
          (\A f \in Enrollment : f.id # e.id)
            => \E p \in Payment : /\ p.studentId = e.studentId
                                   /\ p.courseId = e.courseId
                                   /\ p.status = "completed"]_vars

C23_Witness ==
  \E i \in Inv :
    /\ wh[i].pc = "done" /\ wh[i].error = "StorageError"
    /\ EnrollmentsBy(i) # {} /\ PaymentsBy(i) # {}

\* C24: whenever no webhook invocation is in flight, the counter of each
\* course is its initial value plus the number of its Enrollment rows.
C24_CounterAgreesWhenIdle ==
  \A c \in CourseIds :
    ((\A i \in Inv : ~InFlight(i)) /\ Course[c].exists)
      => Course[c].enrollmentCount = InitialEnrollmentCount + countEnrollments(c)

\* C25: create-checkout answers 404 for a course that does not exist and 400
\* for a student who has an Enrollment for the course; a step that adds a
\* session adds it for an existing course and a student without an
\* Enrollment for it, and changes no store.
C25_CheckoutRefusesUnfulfillable ==
  /\ [](\A s \in Students, c \in CourseIds :
          /\ findByPk(c) = Null => CheckoutStatus(s, c, TRUE) = 404
          /\ (findByPk(c) # Null /\ findOneEnrollment(s, c) # {})
               => CheckoutStatus(s, c, TRUE) = 400)
  /\ [][\A x \in sessions' \ sessions :
          /\ findByPk(x.courseId) # Null
          /\ findOneEnrollment(x.studentId, x.courseId) = {}
          /\ UNCHANGED Stores]_vars

C25_Witness ==
  \E s \in Students, c \in CourseIds :
    /\ Cardinality(sessions) < MaxSessions
    /\ findByPk(c) # Null /\ findOneEnrollment(s, c) # {}
    /\ CheckoutStatus(s, c, TRUE) = 400

====
